---- MODULE Spec2Model ----
(***************************************************************************)
(* A model of jbof (src/jbof.py): a dataset kept as a directory of item    *)
(* directories, each holding array payload files and JSON sidecars.        *)
(*                                                                         *)
(* The filesystem is modelled by what the code can observe of it: whether  *)
(* the dataset directory exists, the JSON stored in it, the item           *)
(* directories with their _metadata.json, the files of one item directory  *)
(* (TheItem) and those of a second directory that holds source files.      *)
(* JSON objects are sets of <<key, value>> pairs with distinct keys; JSON   *)
(* scalars are strings, a number n being written "#n".  A file name        *)
(* "<stem>.<suffix>" is the pair <<stem, suffix>>.                         *)
(*                                                                         *)
(* Item handles are identified by the directory they were made for.  The   *)
(* model keeps one Item object of TheItem per DataSet object, with its two *)
(* caches; find_items reads item metadata from disk.                       *)
(***************************************************************************)
EXTENDS Integers, Sequences, FiniteSets, TLC

\* ------------------------------------------------------------- bounds
\* Number of all_items() generator objects made in one run.
MaxGens == 2
\* Number of identifiers uuid.uuid1() hands out in one run.
MaxUuid == 1
\* Items per dataset and files per item directory, for calculate_hash.
MaxHashItems == 2
MaxHashFiles == 2
\* Item handles the program collects in one list.
MaxHeld == 2

\* ------------------------------------------------------------- domains
\* The two DataSet objects of a run: the one create_dataset returns
\* (readonly=False) and one made by DataSet(directory) (readonly=True).
Handles == {"rw", "ro"}

\* The absent argument (Python's None) and the null itemformat.
None == "None"

\* Names given explicitly to add_item; the last two are the files that
\* create_dataset writes into the dataset directory.
ExplicitNames == {"bar", "baz", "_metadata.json", "__init__.py"}

UuidNames == <<"u1", "u2", "u3">>

\* Every name an item directory can have in the model.
ItemNames == {"bar", "baz"} \cup {UuidNames[i] : i \in 1..MaxUuid}

\* The item whose directory content is modelled file by file.
TheItem == "bar"

\* Metadata mappings passed to add_item.
MetaChoices ==
    { {},
      {<<"foo", "bar">>},
      {<<"foo", "baz">>, <<"raz", "boo">>},
      {<<"n", "#3">>} }

\* An optional metadata argument: <<>> is None, <<m>> is the mapping m.
MetaArgs == {<<>>} \cup {<<m>> : m \in MetaChoices}

\* Metadata passed to create_dataset.
DsMetaArgs == { <<{<<"kind", "dataset">>}>> }

\* itemformat arguments of create_dataset: null, a str.format template, and a
\* string without any placeholder.
Formats == {None, "{foo}", "plain"}

\* Paths given to DataSet(directory).
DsPath == "tmp"
\* A second dataset and the items it is created with
OtherPath == "tmp2"
OtherNames == {"bar", "baz"}
Paths == {DsPath, "tmp/__init__.py", ".", "doesnotexist"}

\* The directories whose files are modelled: TheItem's directory and a
\* directory outside the dataset.
Dirs == {"item", "elsewhere"}

VARIABLES
    dsExists,      \* the dataset directory (with _metadata.json, __init__.py) exists
    dsmeta,        \* the JSON object stored in the dataset's _metadata.json
    items,         \* item directory name -> JSON object of its _metadata.json
    hstate,        \* per DataSet object: "none", "open", "bogus", "deleted" (_directory is None)
    cache,         \* per DataSet object: self._cache, the Item handles by directory name
    gens,          \* the all_items() generator objects
    uuidCount,     \* identifiers handed out by uuid1 so far
    deletedItems,  \* history: names removed by delete_item and not added again
    files,         \* per directory of Dirs: file name -> content (_metadata.json left out)
    cwd,           \* the process working directory, one of Dirs
    ihandle,       \* per DataSet object: the program holds its Item object of TheItem
    acache,        \* per DataSet object: that Item's _array_cache, name -> Array
    mcache,        \* per DataSet object: that Item's _metadata_cache, <<>> (None) or <<mapping>>
    hlisting,      \* a dataset as listed: items in listing order, each its files' bytes in listing order
    hmoved,        \* history: the listing order has changed since the first call
    hdigest,       \* the last result of calculate_hash
    hdigest0,      \* history: the first result of calculate_hash
    otherItems,    \* the item directories of a second dataset, OtherPath
    pickled,       \* the state __getstate__ returned last: <<>> or <<state>>
    held,          \* a list of Item handles the program keeps, each by its path
    ret            \* the last call: operation, DataSet object, outcome, value

dsvars == <<dsExists, dsmeta, items, hstate, cache, gens, uuidCount, deletedItems>>
itvars == <<files, cwd, ihandle, acache, mcache>>
hashvars == <<hlisting, hmoved, hdigest, hdigest0>>
\* what the calls on the dataset at DsPath and its items have no business with
restvars == <<hashvars, otherItems, pickled, held>>

vars == <<dsExists, dsmeta, items, hstate, cache, gens, uuidCount, deletedItems,
          files, cwd, ihandle, acache, mcache, hlisting, hmoved, hdigest, hdigest0,
          otherItems, pickled, held, ret>>

\* ------------------------------------------------------------- helpers
HasKey(m, k) == \E p \in m : p[1] = k
Get(m, k) == (CHOOSE p \in m : p[1] = k)[2]
\* dict(m, k=v)
DictWith(m, k, v) == {p \in m : p[1] # k} \cup {<<k, v>>}

Range(s) == {s[i] : i \in DOMAIN s}

\* The orders in which a directory listing can return the entries S.
Perms(S) ==
    {s \in [1..Cardinality(S) -> S] : \A i, j \in DOMAIN s : i # j => s[i] # s[j]}

\* f with key k bound to v, and f without key k
MapWith(f, k, v) == [x \in DOMAIN f \cup {k} |-> IF x = k THEN v ELSE f[x]]
MapWithout(f, k) == [x \in DOMAIN f \ {k} |-> f[x]]
EmptyMap == [x \in {} |-> {}]

\* A faulty variant: the read-only flag is dropped, every object is writable
ReadonlyDropped(h) == FALSE

\* self._readonly of the DataSet and Item objects of client h
Readonly(h) == h = "ro"

\* The record of a call: val holds the item names returned or yielded, all
\* what all_items() yielded to a find_items call, q the query of that call.
Ret(op, h, st, val) ==
    [op |-> op, h |-> h, st |-> st, val |-> val, all |-> <<>>, q |-> <<>>]

\* ------------------------------------------------------------- paths
\* Path.exists()
PathExists(p) ==
    CASE p = DsPath -> dsExists
      [] p = "tmp/__init__.py" -> dsExists
      [] p = "." -> TRUE
      [] OTHER -> FALSE

\* Path.is_dir()
PathIsDir(p) ==
    CASE p = DsPath -> dsExists
      [] p = "." -> TRUE
      [] OTHER -> FALSE

\* (directory / '_metadata.json').exists()
PathHasMetadata(p) == p = DsPath /\ dsExists

\* A faulty variant: the name is looked up among the cached items, not on disk
has_item_cached(name) == \E i \in DOMAIN cache["rw"] : cache["rw"][i] = name

\* DataSet.has_item on an object whose _directory is the dataset directory
has_item(name) ==
    dsExists /\ (name \in DOMAIN items \/ name \in {"_metadata.json", "__init__.py"})

\* DataSet.itemformat
itemformat == Get(dsmeta, "_itemformat")

\* A generator's list object stops being self._cache when the attribute is rebound.
Unalias(h) ==
    [i \in DOMAIN gens |->
        IF gens[i].h = h THEN [gens[i] EXCEPT !.live = FALSE] ELSE gens[i]]

DropGens(h) == SelectSeq(gens, LAMBDA g : g.h # h)

\* ------------------------------------------------------------- create / open
\* create_dataset(DsPath, metadata, itemformat)
create_dataset(mdarg, fmt) ==
    /\ IF PathExists(DsPath)
       THEN /\ ret' = Ret("create_dataset", "rw", "AlreadyExists", <<>>)
            /\ UNCHANGED dsvars
       ELSE /\ dsExists' = TRUE
            /\ dsmeta' = DictWith(IF mdarg = <<>> THEN {} ELSE mdarg[1], "_itemformat", fmt)
            /\ items' = EmptyMap
            /\ hstate' = [hstate EXCEPT !["rw"] = "open"]
            /\ cache' = [cache EXCEPT !["rw"] = <<>>]
            /\ gens' = DropGens("rw")
            /\ deletedItems' = {}
            /\ ret' = Ret("create_dataset", "rw", "ok", <<>>)
            /\ UNCHANGED uuidCount
    /\ UNCHANGED <<itvars, restvars>>

\* DataSet.__init__(directory): the outcome for path p
DataSetInitOutcome(p) ==
    IF ~PathExists(p) THEN "NotFound"
    ELSE IF ~PathIsDir(p) /\ PathHasMetadata(p) THEN "NotFound"
    ELSE "ok"

\* d = DataSet(p), readonly by default
DataSetInit(p) ==
    LET st == DataSetInitOutcome(p) IN
    /\ ret' = Ret("DataSet", "ro", st, <<p>>)
    /\ IF st = "ok"
       THEN /\ hstate' = [hstate EXCEPT !["ro"] = IF p = DsPath THEN "open" ELSE "bogus"]
            /\ cache' = [cache EXCEPT !["ro"] = <<>>]
            /\ gens' = DropGens("ro")
            /\ ihandle' = [ihandle EXCEPT !["ro"] = FALSE]
            /\ acache' = [acache EXCEPT !["ro"] = EmptyMap]
            /\ mcache' = [mcache EXCEPT !["ro"] = <<>>]
       ELSE UNCHANGED <<hstate, cache, gens, ihandle, acache, mcache>>
    /\ UNCHANGED <<dsExists, dsmeta, items, uuidCount, deletedItems, files, cwd, restvars>>

\* ------------------------------------------------------------- naming
\* str.format of one metadata value
FormatValue(v) == IF v = "#3" THEN "3" ELSE v

\* A faulty variant: the template is ignored, every name is a fresh identifier
itemname_fresh(mdarg) == [st |-> "ok", name |-> UuidNames[uuidCount + 1]]

\* DataSet._itemname(metadata): [st, name]
itemname(mdarg) ==
    IF itemformat = "{foo}"
    THEN IF mdarg = <<>> THEN [st |-> "TypeError", name |-> ""]
         ELSE IF ~HasKey(mdarg[1], "foo") THEN [st |-> "KeyError", name |-> ""]
         ELSE [st |-> "ok", name |-> FormatValue(Get(mdarg[1], "foo"))]
    ELSE IF itemformat = None
    THEN [st |-> "ok", name |-> UuidNames[uuidCount + 1]]
    \* the TypeError object is returned, not raised; Path / TypeError raises
    ELSE [st |-> "TypeError", name |-> ""]

\* ------------------------------------------------------------- items
\* self._cache.append(item) also reaches the generators that iterate that list
AppendAliased(h, n) ==
    [i \in DOMAIN gens |->
        LET g == gens[i] IN
        IF g.h = h /\ g.pc = "replay" /\ g.live
        THEN [g EXCEPT !.local = Append(@, n)]
        ELSE g]

\* History: item n exists again
Reborn(gs, n) == [i \in DOMAIN gs |-> [gs[i] EXCEPT !.born = @ \ {n}]]

\* if self._cache: self._cache.append(item)
CacheAfterAdd(h, n) ==
    IF cache[h] # <<>> THEN [cache EXCEPT ![h] = Append(@, n)] ELSE cache

\* DataSet.add_item(name, metadata); name = None when absent
add_item(h, name, mdarg) ==
    LET fail(st) ==
            /\ ret' = Ret("add_item", h, st, <<>>)
            /\ UNCHANGED <<dsvars, itvars>>
    IN
    /\ hstate[h] \in {"open", "deleted"}
    /\ UNCHANGED restvars
    /\ IF Readonly(h) THEN fail("ReadOnly")
       ELSE IF hstate[h] = "deleted" THEN fail("TypeError")
       ELSE LET usesUuid == name = None /\ itemformat = None
                nm == IF name = None THEN itemname(mdarg) ELSE [st |-> "ok", name |-> name]
                md == IF mdarg = <<>> THEN {} ELSE mdarg[1]
            IN
            /\ usesUuid => uuidCount < MaxUuid
            /\ IF nm.st # "ok" THEN fail(nm.st)
               ELSE IF has_item(nm.name) THEN fail("AlreadyExists")
               ELSE /\ items' = MapWith(items, nm.name, md)
                    /\ cache' = CacheAfterAdd(h, nm.name)
                    /\ gens' = Reborn(IF cache[h] # <<>> THEN AppendAliased(h, nm.name)
                                      ELSE gens, nm.name)
                    /\ uuidCount' = IF usesUuid THEN uuidCount + 1 ELSE uuidCount
                    /\ deletedItems' = deletedItems \ {nm.name}
                    /\ ret' = Ret("add_item", h, "ok", <<nm.name>>)
                    /\ IF nm.name = TheItem
                       THEN /\ ihandle' = [ihandle EXCEPT ![h] = TRUE]
                            /\ acache' = [acache EXCEPT ![h] = EmptyMap]
                            /\ mcache' = [mcache EXCEPT ![h] = <<>>]
                       ELSE UNCHANGED <<ihandle, acache, mcache>>
                    /\ UNCHANGED <<dsExists, dsmeta, hstate, files, cwd>>

\* shutil.rmtree of item directory n takes the files in it along
FilesAfterRmtree(n) ==
    IF n = TheItem THEN [files EXCEPT !["item"] = EmptyMap] ELSE files

\* DataSet.delete_item(item): by name (a str) or by an Item handle made for
\* directory n, which may be gone by now
delete_item(h, kind, n) ==
    LET fail(st) ==
            /\ ret' = Ret("delete_item", h, st, <<>>)
            /\ UNCHANGED <<dsvars, itvars>>
    IN
    /\ hstate[h] \in {"open", "deleted"}
    /\ UNCHANGED restvars
    /\ IF Readonly(h) THEN fail("ReadOnly")
       ELSE IF kind = "str" /\ hstate[h] = "deleted" THEN fail("TypeError")
       ELSE IF kind = "str" /\ ~has_item(n) THEN fail("NotFound")
       ELSE /\ cache' = [cache EXCEPT ![h] = <<>>]
            /\ IF n \in DOMAIN items
               THEN /\ items' = MapWithout(items, n)
                    /\ files' = FilesAfterRmtree(n)
                    /\ deletedItems' = deletedItems \cup {n}
                    /\ gens' = [i \in DOMAIN gens |->
                                  [Unalias(h)[i] EXCEPT !.expect = @ \ {n}]]
                    /\ ret' = Ret("delete_item", h, "ok", <<n>>)
               ELSE \* shutil.rmtree raises after the cache was reset
                    /\ gens' = Unalias(h)
                    /\ ret' = Ret("delete_item", h, "FileNotFound", <<n>>)
                    /\ UNCHANGED <<items, files, deletedItems>>
            /\ UNCHANGED <<dsExists, dsmeta, hstate, uuidCount, cwd, ihandle, acache, mcache>>

\* delete_dataset(dataset)
delete_dataset(h) ==
    /\ hstate[h] \in {"open", "deleted"}
    /\ UNCHANGED restvars
    /\ IF Readonly(h)
       THEN /\ ret' = Ret("delete_dataset", h, "ReadOnly", <<>>)
            /\ UNCHANGED <<dsvars, itvars>>
       ELSE IF hstate[h] = "deleted"
       THEN \* shutil.rmtree(None)
            /\ ret' = Ret("delete_dataset", h, "TypeError", <<>>)
            /\ UNCHANGED <<dsvars, itvars>>
       ELSE /\ dsExists' = FALSE
            /\ dsmeta' = {}
            /\ items' = EmptyMap
            /\ files' = FilesAfterRmtree(TheItem)
            /\ hstate' = [hstate EXCEPT ![h] = "deleted"]
            /\ gens' = [i \in DOMAIN gens |-> [gens[i] EXCEPT !.expect = {}]]
            /\ ret' = Ret("delete_dataset", h, "ok", <<>>)
            /\ UNCHANGED <<cache, uuidCount, deletedItems, cwd, ihandle, acache, mcache>>

\* ------------------------------------------------------------- all_items
\* dir.is_dir() for an entry of the dataset directory
EntryIsDir(n) == dsExists /\ n \in DOMAIN items

\* g = dataset.all_items(): the generator object; its body has not run yet.
\* History kept with a generator: expect holds the items that existed when
\* all_items() was called and that it has not yielded yet (a deleted item
\* leaves it); born the items delete_item had removed by then; stale tells
\* that it yielded one of those.
all_items(h) ==
    /\ hstate[h] \in {"open", "deleted"}
    /\ Len(gens) < MaxGens
    /\ gens' = Append(gens,
            [h |-> h, pc |-> "new", todo |-> <<>>, local |-> <<>>, idx |-> 0,
             live |-> FALSE,
             expect |-> IF dsExists THEN DOMAIN items ELSE {},
             born |-> deletedItems, stale |-> FALSE])
    /\ ret' = Ret("all_items", h, "ok", <<>>)
    /\ UNCHANGED <<dsExists, dsmeta, items, hstate, cache, uuidCount, deletedItems,
                   itvars, restvars>>

Yielded(g, n) ==
    [g EXCEPT !.expect = @ \ {n}, !.stale = @ \/ n \in g.born]

\* A generator that has returned holds no list any more.
Finished(g, pc) ==
    [g EXCEPT !.pc = pc, !.todo = <<>>, !.local = <<>>, !.idx = 0, !.live = FALSE,
              !.born = {}]

RECURSIVE SkipNonDirs(_)
\* "if not dir.is_dir() ...: continue", up to the next directory
SkipNonDirs(todo) ==
    IF todo = <<>> THEN <<>>
    ELSE IF EntryIsDir(Head(todo)) THEN todo
    ELSE SkipNonDirs(Tail(todo))

\* "self._cache = cache" at the end of the loop
CacheAfterScan(h, local) == [cache EXCEPT ![h] = local]

\* the "else" branch of all_items resumed: up to the next yield, or to the
\* end of the loop, where the local list becomes self._cache
ScanResume(i, g) ==
    LET rest == SkipNonDirs(g.todo) IN
    IF rest = <<>>
    THEN /\ cache' = CacheAfterScan(g.h, g.local)
         /\ gens' = [Unalias(g.h) EXCEPT ![i] = Finished(g, "done")]
         /\ ret' = Ret("next", g.h, "StopIteration", <<>>)
    ELSE /\ gens' = [gens EXCEPT ![i] =
                Yielded([g EXCEPT !.todo = Tail(rest), !.local = Append(@, Head(rest))],
                        Head(rest))]
         /\ ret' = Ret("next", g.h, "ok", <<Head(rest)>>)
         /\ UNCHANGED cache

\* "yield from self._cache" resumed: the list iterator reads the list object
ReplayResume(i, g) ==
    /\ UNCHANGED cache
    /\ IF g.idx < Len(g.local)
       THEN /\ gens' = [gens EXCEPT ![i] =
                   Yielded([g EXCEPT !.idx = @ + 1], g.local[g.idx + 1])]
            /\ ret' = Ret("next", g.h, "ok", <<g.local[g.idx + 1]>>)
       ELSE /\ gens' = [gens EXCEPT ![i] = Finished(g, "done")]
            /\ ret' = Ret("next", g.h, "StopIteration", <<>>)

\* next(g) on generator i
next_item(i) ==
    /\ i \in DOMAIN gens
    /\ gens[i].pc \in {"new", "scan", "replay"}
    /\ LET g == gens[i] IN
       CASE g.pc = "new" ->
              IF cache[g.h] # <<>>
              THEN ReplayResume(i, [g EXCEPT !.pc = "replay", !.local = cache[g.h],
                                             !.live = TRUE])
              ELSE IF hstate[g.h] = "deleted" \/ ~dsExists
              THEN \* None.iterdir(), or iterdir() of a directory that is gone
                   /\ gens' = [gens EXCEPT ![i] = Finished(g, "error")]
                   /\ ret' = Ret("next", g.h, "Error", <<>>)
                   /\ UNCHANGED cache
              ELSE \E s \in Perms(DOMAIN items) :
                      ScanResume(i, [g EXCEPT !.pc = "scan", !.todo = s])
         [] g.pc = "scan" -> ScanResume(i, g)
         [] g.pc = "replay" -> ReplayResume(i, g)
    /\ UNCHANGED <<dsExists, dsmeta, items, hstate, uuidCount, deletedItems,
                   itvars, restvars>>

\* all_items() run to its end in one go, the directory listed in order s:
\* [st, seq, scanned]
AllItemsRun(h, s) ==
    IF cache[h] # <<>> THEN [st |-> "ok", seq |-> cache[h], scanned |-> FALSE]
    ELSE IF hstate[h] = "deleted" \/ ~dsExists
    THEN [st |-> "Error", seq |-> <<>>, scanned |-> FALSE]
    ELSE [st |-> "ok", seq |-> s, scanned |-> TRUE]

ListingOrders == IF dsExists THEN Perms(DOMAIN items) ELSE {<<>>}

\* list(dataset.all_items())
list_all_items(h) ==
    /\ hstate[h] \in {"open", "deleted"}
    /\ \E s \in ListingOrders :
          LET r == AllItemsRun(h, s) IN
          /\ ret' = Ret("list_all_items", h, r.st, r.seq)
          /\ IF r.scanned
             THEN /\ cache' = CacheAfterScan(h, r.seq)
                  /\ gens' = Unalias(h)
             ELSE UNCHANGED <<cache, gens>>
    /\ UNCHANGED <<dsExists, dsmeta, items, hstate, uuidCount, deletedItems,
                   itvars, restvars>>

\* ------------------------------------------------------------- find_items
\* Query values: a str, a number, or a list of values
QStr(v) == [kind |-> "str", vals |-> {v}]
QNum(v) == [kind |-> "num", vals |-> {v}]
QList(vs) == [kind |-> "list", vals |-> vs]

\* Keyword queries, as the sequence of (key, value) in keyword order
Queries ==
    { <<>>,
      << <<"foo", QStr("bar")>> >>,
      << <<"foo", QList({"bar", "baz"})>> >>,
      << <<"foo", QStr("baz")>>, <<"raz", QStr("boo")>> >>,
      << <<"foo", QStr("quz")>>, <<"raz", QStr("boo")>> >>,
      << <<"doesnot", QStr("exist")>> >>,
      << <<"n", QNum("#3")>> >>,
      << <<"n", QList({"#3"})>> >> }

RECURSIVE QueryLoop(_, _)
\* the inner loop of find_items over query.items(): "yield" when it runs to
\* its else branch, "break", or the TypeError of "x not in <number>"
QueryLoop(md, q) ==
    IF q = <<>> THEN "yield"
    ELSE LET key == q[1][1]
             value == q[1][2]
         IN IF ~HasKey(md, key) THEN "break"
            ELSE IF value.kind = "num" THEN "TypeError"
            ELSE IF Get(md, key) \notin value.vals THEN "break"
            ELSE QueryLoop(md, Tail(q))

RECURSIVE FindLoop(_, _, _)
\* the outer loop of find_items over the items all_items() yields; reading
\* item.metadata opens the item's _metadata.json
FindLoop(seq, q, acc) ==
    IF seq = <<>> THEN [st |-> "ok", out |-> acc]
    ELSE LET n == Head(seq)
             r == IF q = <<>> THEN "yield"
                  ELSE IF ~EntryIsDir(n) THEN "FileNotFound"
                  ELSE QueryLoop(items[n], q)
         IN CASE r = "yield" -> FindLoop(Tail(seq), q, Append(acc, n))
              [] r = "break" -> FindLoop(Tail(seq), q, acc)
              [] OTHER -> [st |-> r, out |-> acc]

\* list(dataset.find_items(**q))
find_items(h, q) ==
    /\ hstate[h] \in {"open", "deleted"}
    /\ \E s \in ListingOrders :
          LET r == AllItemsRun(h, s)
              f == FindLoop(r.seq, q, <<>>)
              st == IF r.st # "ok" THEN r.st ELSE f.st
          IN
          /\ ret' = [op |-> "find_items", h |-> h, st |-> st, val |-> f.out,
                     all |-> r.seq, q |-> q]
          /\ IF r.scanned /\ st = "ok"
             THEN /\ cache' = CacheAfterScan(h, r.seq)
                  /\ gens' = Unalias(h)
             ELSE UNCHANGED <<cache, gens>>
    /\ UNCHANGED <<dsExists, dsmeta, items, hstate, uuidCount, deletedItems,
                   itvars, restvars>>

\* ------------------------------------------------------------- arrays
\* Array names, payload data and sample rates used as arguments
ArrayNames == {"x"}
Datas == {"d0", "d1"}
AudioFormats == {"wav", "flac", "ogg"}

\* Metadata arguments of add_array and add_array_from_file
ArrayMetaArgs == {<<>>, <<{<<"kind", "ones">>}>>, <<{<<"samplerate", "#1">>}>>}

\* A payload file: its encoding, the data in it, the sample rate in its
\* header (audio) and the variable name it is stored under (mat)
Payload(fmt, data, rate, key) ==
    [kind |-> "payload", fmt |-> fmt, data |-> data, rate |-> rate, key |-> key,
     fn |-> <<"", "">>, meta |-> {}]

\* A sidecar file: json.dump(dict(metadata, _filename=fn))
Sidecar(fn, meta) ==
    [kind |-> "json", fmt |-> "json", data |-> "", rate |-> "", key |-> "",
     fn |-> fn, meta |-> {p \in meta : p[1] # "_filename"}]

\* Files outside the dataset, given to add_array_from_file
SourceFiles ==
    [f \in {<<"x", "npy">>, <<"s", "wav">>} |->
        IF f[2] = "npy" THEN Payload("npy", "d1", "", "")
        ELSE Payload("wav", "d0", "#44100", "")]

\* Paths given to add_array_from_file, relative to the working directory
SourcePaths == {<<"x", "npy">>, <<"s", "wav">>, <<"nope", "npy">>}

ItemDirExists == dsExists /\ TheItem \in DOMAIN items

\* Item.has_array(name)
has_array(name) == <<name, "json">> \in DOMAIN files["item"]

\* Array.__new__(metafile) for the sidecar of name: [st, arr]
Decode(dir, name) ==
    LET NoArray == [data |-> "", fn |-> <<"", "">>, meta |-> {}]
        err(st) == [st |-> st, arr |-> NoArray]
        mf == <<name, "json">>
    IN
    IF mf \notin DOMAIN dir THEN err("FileNotFound")
    ELSE LET sc == dir[mf]
             ext == sc.fn[2]
             ok(data, meta) ==
                 [st |-> "ok", arr |-> [data |-> data, fn |-> sc.fn, meta |-> meta]]
         IN
         IF ext \notin {"npy", "mat"} \cup AudioFormats THEN err("UnboundLocalError")
         ELSE IF sc.fn \notin DOMAIN dir THEN err("FileNotFound")
         ELSE IF ext = "npy" THEN ok(dir[sc.fn].data, sc.meta)
         ELSE IF ext \in AudioFormats
         THEN ok(dir[sc.fn].data, DictWith(sc.meta, "samplerate", dir[sc.fn].rate))
         ELSE IF dir[sc.fn].key # sc.fn[1] THEN err("KeyError")
         ELSE ok(dir[sc.fn].data, sc.meta)

\* A faulty variant: the sample rate is never found missing
FalsyNever(sr) == FALSE

\* "if samplerate:" is false for None and for 0
Falsy(sr) == sr \in {None, "#0"}

\* A faulty variant: the destination payload is never found to exist
ArrayFileExistsNever(af) == FALSE

\* "if arrayfilename.exists(): raise" of add_array and add_array_from_file
ArrayFileExists(af) == af \in DOMAIN files["item"]

\* Item.add_array(name, data, metadata, fileformat, samplerate)
add_array(h, name, data, mdarg, fmt, sr) ==
    LET af == <<name, fmt>>
        mf == <<name, "json">>
        md == IF mdarg = <<>> THEN {} ELSE mdarg[1]
        fail(st) ==
            /\ ret' = Ret("add_array", h, st, <<name>>)
            /\ UNCHANGED files
        write(payload, meta) ==
            IF ~ItemDirExists THEN fail("FileNotFound")
            ELSE LET dir == MapWith(MapWith(files["item"], af, payload), mf, Sidecar(af, meta))
                 IN /\ files' = [files EXCEPT !["item"] = dir]
                    /\ ret' = Ret("add_array", h, Decode(dir, name).st, <<name>>)
    IN
    /\ ihandle[h]
    /\ UNCHANGED <<dsvars, cwd, ihandle, acache, mcache, restvars>>
    /\ IF Readonly(h) THEN fail("ReadOnly")
       ELSE IF ArrayFileExists(af) THEN fail("AlreadyExists")
       ELSE IF fmt = "npy" THEN write(Payload("npy", data, "", ""), md)
       ELSE IF fmt \in AudioFormats
       THEN IF ~Falsy(sr)
            THEN write(Payload(fmt, data, sr, ""), DictWith(md, "samplerate", sr))
            ELSE fail("MissingParameter")
       ELSE IF fmt = "mat" THEN write(Payload("mat", data, "", name), md)
       ELSE fail("NotImplemented")

\* Item.add_array_from_file(name, filename, metadata); filename is relative
add_array_from_file(h, name, src, mdarg) ==
    LET af == <<name, src[2]>>
        mf == <<name, "json">>
        md == IF mdarg = <<>> THEN {} ELSE mdarg[1]
        fail(st) ==
            /\ ret' = Ret("add_array_from_file", h, st, <<name>>)
            /\ UNCHANGED files
    IN
    /\ ihandle[h]
    /\ UNCHANGED <<dsvars, cwd, ihandle, acache, mcache, restvars>>
    /\ IF Readonly(h) THEN fail("ReadOnly")
       ELSE IF src \notin DOMAIN files[cwd] THEN fail("NotFound")
       ELSE LET content == files[cwd][src]
                meta == IF src[2] \in AudioFormats
                        THEN DictWith(md, "samplerate", content.rate)
                        ELSE md
            IN
            IF ArrayFileExists(af) THEN fail("AlreadyExists")
            ELSE IF ~ItemDirExists THEN fail("FileNotFound")
            ELSE LET dir == MapWith(MapWith(files["item"], af, content), mf, Sidecar(af, meta))
                 IN /\ files' = [files EXCEPT !["item"] = dir]
                    /\ ret' = Ret("add_array_from_file", h, Decode(dir, name).st, <<name>>)

\* "metafilename in self._array_cache": the keys are str and metafilename is
\* a Path, which never equals a str
PathInCache(path, c) == FALSE

\* The Array objects the program can hold of Item h: decoded from a sidecar
\* now, or kept in the Item's cache; each by its _filename
ArrayHandles(h) ==
    {files["item"][f].fn : f \in {g \in DOMAIN files["item"] : g[2] = "json"}}
    \cup {acache[h][n].fn : n \in DOMAIN acache[h]}

\* arrayfilename = Path(array._filename): a bare name, so relative to the
\* working directory
DeleteDir == cwd

\* Item.delete_array(array), array._filename being fn
delete_array(h, fn) ==
    LET mf == <<fn[1], "json">>
        dir == files[DeleteDir]
    IN
    /\ ihandle[h]
    /\ fn \in ArrayHandles(h)
    /\ UNCHANGED <<dsvars, cwd, ihandle, mcache, restvars>>
    /\ IF Readonly(h)
       THEN /\ ret' = Ret("delete_array", h, "ReadOnly", <<fn[1]>>)
            /\ UNCHANGED <<files, acache>>
       ELSE IF fn \notin DOMAIN dir
       THEN /\ ret' = Ret("delete_array", h, "FileNotFound", <<fn[1]>>)
            /\ UNCHANGED <<files, acache>>
       ELSE IF mf \notin DOMAIN dir
       THEN /\ files' = [files EXCEPT ![DeleteDir] = MapWithout(dir, fn)]
            /\ ret' = Ret("delete_array", h, "FileNotFound", <<fn[1]>>)
            /\ UNCHANGED acache
       ELSE /\ files' = [files EXCEPT ![DeleteDir] = MapWithout(MapWithout(dir, fn), mf)]
            /\ acache' = IF PathInCache(mf, acache[h])
                         THEN [acache EXCEPT ![h] = MapWithout(@, fn[1])]
                         ELSE acache
            /\ ret' = Ret("delete_array", h, "ok", <<fn[1]>>)

\* Names Item.__getattr__ refuses
ReservedNames == {"__getstate__", "_directory", "_readonly", "_metadata_cache", "_array_cache"}

\* item.<name>, through Item.__getattr__
getattr(h, name) ==
    /\ ihandle[h]
    /\ UNCHANGED <<dsvars, files, cwd, ihandle, mcache, restvars>>
    /\ IF name \in ReservedNames
       THEN /\ ret' = Ret("getattr", h, "AttributeError", <<name>>)
            /\ UNCHANGED acache
       ELSE IF ~has_array(name)
       THEN /\ ret' = Ret("getattr", h, "NotFound", <<name>>)
            /\ UNCHANGED acache
       ELSE IF name \in DOMAIN acache[h]
       THEN /\ ret' = Ret("getattr", h, "ok", <<name>>)
            /\ UNCHANGED acache
       ELSE LET d == Decode(files["item"], name) IN
            /\ ret' = Ret("getattr", h, d.st, <<name>>)
            /\ acache' = IF d.st = "ok"
                         THEN [acache EXCEPT ![h] = MapWith(@, name, d.arr)]
                         ELSE acache

\* list(item.all_arrays()): "getattribute" is no name of Python
list_all_arrays(h) ==
    /\ ihandle[h]
    /\ UNCHANGED <<dsvars, itvars, restvars>>
    /\ IF \E f \in DOMAIN files["item"] : f[2] = "json"
       THEN ret' = Ret("all_arrays", h, "NameError", <<>>)
       ELSE ret' = Ret("all_arrays", h, "ok", <<>>)

\* item = dataset.get_item(name)
get_item(h, name) ==
    /\ hstate[h] \in {"open", "deleted"}
    /\ UNCHANGED <<dsvars, files, cwd, restvars>>
    /\ IF hstate[h] = "deleted"
       THEN /\ ret' = Ret("get_item", h, "TypeError", <<>>)
            /\ UNCHANGED <<ihandle, acache, mcache>>
       ELSE IF ~has_item(name)
       THEN /\ ret' = Ret("get_item", h, "NotFound", <<>>)
            /\ UNCHANGED <<ihandle, acache, mcache>>
       ELSE /\ ret' = Ret("get_item", h, "ok", <<name>>)
            /\ IF name = TheItem
               THEN /\ ihandle' = [ihandle EXCEPT ![h] = TRUE]
                    /\ acache' = [acache EXCEPT ![h] = EmptyMap]
                    /\ mcache' = [mcache EXCEPT ![h] = <<>>]
               ELSE UNCHANGED <<ihandle, acache, mcache>>

\* ------------------------------------------------------------- calculate_hash
\* File contents, as byte strings
HashContents == {<<0>>, <<1>>, <<0, 1>>}

\* The item directories and datasets calculate_hash is applied to: an item
\* is the sequence of its files' contents as iterdir() returns them, a
\* dataset the sequence of its items as all_items() yields them
SeqsUpTo(S, lo, hi) == UNION {[1..n -> S] : n \in lo..hi}
HashItems == SeqsUpTo(HashContents, 1, MaxHashFiles)
HashDatasets == SeqsUpTo(HashItems, 0, MaxHashItems)

RECURSIVE Md5Fold(_, _)
Md5Fold(bytes, acc) ==
    IF bytes = <<>> THEN acc
    ELSE Md5Fold(Tail(bytes), (acc * 31 + Head(bytes) + 1) % 251)

\* hashlib.md5(bytes).digest(): a stand-in that, like MD5, depends on every
\* byte and on their order; the digest is one byte wide
md5(bytes) == Md5Fold(bytes, 7)

\* sorted(digests)
Sorted(s) == SortSeq(s, LAMBDA a, b : a < b)

\* A faulty variant: the item digests are joined in listing order
ItemHashesUnsorted(s) == s

\* itemhashes = sorted(itemhashes) in calculate_hash
SortedItemHashes(s) == Sorted(s)

\* per item: md5(b''.join(sorted(filehashes))).digest()
ItemDigest(item) == md5(Sorted([i \in DOMAIN item |-> md5(item[i])]))

\* DataSet.calculate_hash() of a dataset listed as `listing`
calculate_hash(listing) ==
    md5(SortedItemHashes([k \in DOMAIN listing |-> ItemDigest(listing[k])]))

Swap(s, i) ==
    [k \in DOMAIN s |-> IF k = i THEN s[i + 1] ELSE IF k = i + 1 THEN s[i] ELSE s[k]]

HashFrame == UNCHANGED <<dsvars, itvars, hdigest0, otherItems, pickled, held>>

\* calculate_hash() when the dataset directory lists items i and i+1 in the
\* other order
hash_items_relisted(i) ==
    /\ i \in 1..(Len(hlisting) - 1)
    /\ hlisting' = Swap(hlisting, i)
    /\ hmoved' = (hmoved \/ hlisting' # hlisting)
    /\ hdigest' = calculate_hash(hlisting')
    /\ ret' = Ret("calculate_hash", "rw", "ok", <<>>)
    /\ HashFrame

\* calculate_hash() when the directory of item k lists files i and i+1 in
\* the other order
hash_files_relisted(k, i) ==
    /\ k \in DOMAIN hlisting
    /\ i \in 1..(Len(hlisting[k]) - 1)
    /\ hlisting' = [hlisting EXCEPT ![k] = Swap(@, i)]
    /\ hmoved' = (hmoved \/ hlisting' # hlisting)
    /\ hdigest' = calculate_hash(hlisting')
    /\ ret' = Ret("calculate_hash", "rw", "ok", <<>>)
    /\ HashFrame

\* ------------------------------------------------------------- specifications
\* Before anything is created: no dataset directory, no DataSet object.
NoDataset ==
    /\ dsExists = FALSE
    /\ dsmeta = {}
    /\ items = EmptyMap
    /\ hstate = [h \in Handles |-> "none"]
    /\ cache = [h \in Handles |-> <<>>]
    /\ gens = <<>>
    /\ uuidCount = 0
    /\ deletedItems = {}
    /\ ihandle = [h \in Handles |-> FALSE]
    /\ acache = [h \in Handles |-> EmptyMap]
    /\ mcache = [h \in Handles |-> <<>>]

NoFiles ==
    /\ files = [d \in Dirs |-> IF d = "item" THEN EmptyMap ELSE SourceFiles]
    /\ cwd = "elsewhere"
    /\ otherItems = {}

\* Nothing pickled, no Item handles collected
NoObjects ==
    /\ pickled = <<>>
    /\ held = <<>>

NoHash ==
    /\ hlisting = <<>>
    /\ hmoved = FALSE
    /\ hdigest = calculate_hash(<<>>)
    /\ hdigest0 = calculate_hash(<<>>)

\* The state create_dataset(DsPath, metadata, fmt) leaves, with the items its
\* add_item calls made
Created(fmt, its) ==
    /\ dsExists = TRUE
    /\ dsmeta = {<<"kind", "dataset">>, <<"_itemformat", fmt>>}
    /\ items = its
    /\ hstate = [h \in Handles |-> IF h = "rw" THEN "open" ELSE "none"]
    /\ cache = [h \in Handles |-> <<>>]
    /\ gens = <<>>
    /\ uuidCount = 0
    /\ deletedItems = {}
    /\ acache = [h \in Handles |-> EmptyMap]
    /\ mcache = [h \in Handles |-> <<>>]

Init ==
    /\ NoDataset
    /\ NoFiles
    /\ NoHash
    /\ NoObjects
    /\ ret = Ret("init", "rw", "ok", <<>>)

\* Metadata arguments of add_item here: None, the empty mapping, one with "foo"
SpecMetaArgs == {<<>>, <<{}>>, <<{<<"foo", "bar">>}>>}

\* Datasets, their creation and opening, items by name
Next ==
    \/ \E m \in DsMetaArgs, f \in Formats : create_dataset(m, f)
    \/ \E p \in Paths : DataSetInit(p)
    \/ \E h \in Handles, n \in ExplicitNames \cup {None}, m \in SpecMetaArgs : add_item(h, n, m)
    \/ \E h \in Handles, k \in {"str", "Item"}, n \in ItemNames : delete_item(h, k, n)
    \/ \E h \in Handles : delete_dataset(h)
    \/ list_all_items("rw")

Spec == Init /\ [][Next]_vars

\* Traversals of one writable dataset, interleaved with add_item and delete_item
InitGen ==
    /\ Created(None, EmptyMap)
    /\ ihandle = [h \in Handles |-> FALSE]
    /\ NoFiles
    /\ NoHash
    /\ NoObjects
    /\ ret = Ret("create_dataset", "rw", "ok", <<>>)

NextGen ==
    \/ \E n \in {"bar", "baz"} : add_item("rw", n, <<>>)
    \/ \E k \in {"str", "Item"}, n \in {"bar", "baz"} : delete_item("rw", k, n)
    \/ all_items("rw")
    \/ \E i \in 1..MaxGens : next_item(i)
    \/ list_all_items("rw")

SpecGen == InitGen /\ [][NextGen]_vars

\* find_items on a dataset holding any items of MetaChoices
FindNames == {"bar", "baz", "u1"}

InitFind ==
    /\ \E S \in SUBSET FindNames : \E its \in [S -> MetaChoices] : Created(None, its)
    /\ ihandle = [h \in Handles |-> FALSE]
    /\ NoFiles
    /\ NoHash
    /\ NoObjects
    /\ ret = Ret("create_dataset", "rw", "ok", <<>>)

NextFind ==
    \/ \E q \in Queries : find_items("rw", q)
    \/ list_all_items("rw")

SpecFind == InitFind /\ [][NextFind]_vars

\* The arrays of one item of a writable dataset; the working directory is
\* the item's directory or another one
InitItem ==
    /\ Created(None, [n \in {TheItem} |-> {}])
    /\ ihandle = [h \in Handles |-> h = "rw"]
    /\ files = [d \in Dirs |-> IF d = "item" THEN EmptyMap ELSE SourceFiles]
    /\ cwd \in Dirs
    /\ otherItems = {}
    /\ NoHash
    /\ NoObjects
    /\ ret = Ret("add_item", "rw", "ok", <<TheItem>>)

ItemFormats == {"npy", "wav", "txt"}
ItemRates == {None, "#8000"}
ArrayFileNames == ArrayNames \X (ItemFormats \cup {"mat"})

NextItem ==
    \/ \E n \in ArrayNames, d \in Datas, m \in ArrayMetaArgs, f \in ItemFormats, sr \in ItemRates :
          add_array("rw", n, d, m, f, sr)
    \/ \E n \in ArrayNames, src \in SourcePaths, m \in ArrayMetaArgs :
          add_array_from_file("rw", n, src, m)
    \/ \E fn \in ArrayFileNames : delete_array("rw", fn)
    \/ \E n \in ArrayNames \cup {"_directory"} : getattr("rw", n)
    \/ list_all_arrays("rw")

SpecItem == InitItem /\ [][NextItem]_vars

\* calculate_hash on any dataset, its directories listed in any order
InitHash ==
    /\ NoDataset
    /\ NoFiles
    /\ hlisting \in HashDatasets
    /\ hmoved = FALSE
    /\ hdigest = calculate_hash(hlisting)
    /\ hdigest0 = hdigest
    /\ NoObjects
    /\ ret = Ret("calculate_hash", "rw", "ok", <<>>)

NextHash ==
    \/ \E i \in 1..MaxHashItems : hash_items_relisted(i)
    \/ \E k \in 1..MaxHashItems, i \in 1..MaxHashFiles : hash_files_relisted(k, i)

SpecHash == InitHash /\ [][NextHash]_vars

\* A dataset opened read-only beside the writable object that fills it
InitRO ==
    /\ Created(None, EmptyMap)
    /\ ihandle = [h \in Handles |-> FALSE]
    /\ NoFiles
    /\ NoHash
    /\ NoObjects
    /\ ret = Ret("create_dataset", "rw", "ok", <<>>)

NextRO ==
    \/ \E n \in {"bar", "baz"} : add_item("rw", n, <<>>)
    \/ add_array("rw", "x", "d0", <<>>, "npy", None)
    \/ DataSetInit(DsPath)
    \/ get_item("ro", TheItem)
    \/ list_all_items("ro")
    \/ getattr("ro", "x")
    \/ \E n \in ExplicitNames \cup {None}, m \in MetaArgs : add_item("ro", n, m)
    \/ \E k \in {"str", "Item"}, n \in ItemNames : delete_item("ro", k, n)
    \/ delete_dataset("ro")
    \/ \E n \in ArrayNames, d \in Datas, m \in ArrayMetaArgs, f \in ItemFormats, sr \in ItemRates :
          add_array("ro", n, d, m, f, sr)
    \/ \E n \in ArrayNames, src \in SourcePaths, m \in ArrayMetaArgs :
          add_array_from_file("ro", n, src, m)
    \/ \E fn \in ArrayFileNames : delete_array("ro", fn)
    \/ \E src \in SourcePaths, m \in ArrayMetaArgs :
          add_array_from_file("rw", "x", src, m)

SpecRO == InitRO /\ [][NextRO]_vars

\* ------------------------------------------------------------- lookups
\* dataset.has_item(name), also "name in dataset"
has_item_call(h, name) ==
    /\ hstate[h] \in {"open", "deleted"}
    /\ UNCHANGED <<dsvars, itvars, restvars>>
    /\ IF hstate[h] = "deleted"
       THEN ret' = Ret("has_item", h, "TypeError", <<name>>)
       ELSE ret' = Ret("has_item", h, IF has_item(name) THEN "True" ELSE "False", <<name>>)

\* dataset.delete_item(item), item being an Item handle of the second
\* dataset, made for its directory n, which may be gone by now
delete_item_of_other(h, n) ==
    /\ hstate[h] \in {"open", "deleted"}
    /\ UNCHANGED <<dsExists, dsmeta, items, hstate, uuidCount, deletedItems, itvars, hashvars, pickled, held>>
    /\ IF Readonly(h)
       THEN /\ ret' = Ret("delete_item", h, "ReadOnly", <<>>)
            /\ UNCHANGED <<cache, gens, otherItems>>
       ELSE /\ cache' = [cache EXCEPT ![h] = <<>>]
            /\ gens' = Unalias(h)
            /\ IF n \in otherItems
               THEN /\ otherItems' = otherItems \ {n}
                    /\ ret' = Ret("delete_item", h, "ok", <<n>>)
               ELSE /\ ret' = Ret("delete_item", h, "FileNotFound", <<n>>)
                    /\ UNCHANGED otherItems

\* Lookups by name in a writable dataset whose items come and go
InitLookup ==
    /\ Created(None, EmptyMap)
    /\ ihandle = [h \in Handles |-> FALSE]
    /\ NoFiles
    /\ NoHash
    /\ NoObjects
    /\ ret = Ret("create_dataset", "rw", "ok", <<>>)

LookupNames == ExplicitNames \cup {"doesnotexist"}

NextLookup ==
    \/ \E n \in {"bar", "baz"}, m \in SpecMetaArgs : add_item("rw", n, m)
    \/ \E n \in {"bar", "baz"} : delete_item("rw", "str", n)
    \/ \E n \in LookupNames : has_item_call("rw", n)
    \/ \E n \in LookupNames : get_item("rw", n)
    \/ list_all_items("rw")

SpecLookup == InitLookup /\ [][NextLookup]_vars

\* Two datasets: the calls are made on the one at DsPath, with Item handles
\* of either
InitTwo ==
    /\ Created(None, EmptyMap)
    /\ ihandle = [h \in Handles |-> FALSE]
    /\ files = [d \in Dirs |-> IF d = "item" THEN EmptyMap ELSE SourceFiles]
    /\ cwd = "elsewhere"
    /\ otherItems = OtherNames
    /\ NoHash
    /\ NoObjects
    /\ ret = Ret("create_dataset", "rw", "ok", <<>>)

NextTwo ==
    \/ \E n \in {"bar", "baz"} : add_item("rw", n, <<>>)
    \/ \E k \in {"str", "Item"}, n \in {"bar", "baz"} : delete_item("rw", k, n)
    \/ list_all_items("rw")
    \/ DataSetInit(DsPath)
    \/ \E h \in Handles, n \in OtherNames : delete_item_of_other(h, n)

SpecTwo == InitTwo /\ [][NextTwo]_vars


\* ------------------------------------------------------------- attributes
\* What attribute lookup finds on an Item before Item.__getattr__ is tried:
\* the attributes __init__ sets, the properties and the methods of the class
InstanceAttributes == {"_directory", "_readonly", "_metadata_cache", "_array_cache"}
ItemProperties == {"metadata", "name"}
ItemMethods ==
    {"all_arrays", "add_array_from_file", "add_array", "delete_array", "has_array",
     "__getstate__"}
OwnAttributes == InstanceAttributes \cup ItemProperties \cup ItemMethods

\* "not self._metadata_cache": true for None and for the empty dict
NoMetadataCached(h) == mcache[h] \in {<<>>, <<{}>>}

\* item.<name>: an attribute of the object or its class if there is one,
\* Item.__getattr__(name) otherwise.  A result that is no array has the
\* outcome "own"; item.metadata returns the cached mapping, read from
\* _metadata.json when nothing is cached
item_attr(h, name) ==
    IF name \notin OwnAttributes THEN getattr(h, name)
    ELSE /\ ihandle[h]
         /\ UNCHANGED <<dsvars, files, cwd, ihandle, acache, restvars>>
         /\ IF name # "metadata"
            THEN /\ ret' = Ret("item_attr", h, "own", <<name>>)
                 /\ UNCHANGED mcache
            ELSE IF ~NoMetadataCached(h)
            THEN /\ ret' = Ret("item_attr", h, "own", <<name, mcache[h][1]>>)
                 /\ UNCHANGED mcache
            ELSE IF ~ItemDirExists
            THEN /\ ret' = Ret("item_attr", h, "FileNotFound", <<name>>)
                 /\ UNCHANGED mcache
            ELSE /\ mcache' = [mcache EXCEPT ![h] = <<items[TheItem]>>]
                 /\ ret' = Ret("item_attr", h, "own", <<name, items[TheItem]>>)

\* ------------------------------------------------------------- pickling
\* A faulty variant: the state keeps the metadata the Item has cached
StateKeepsMetadataCache(h) == mcache[h]

\* state['_metadata_cache'] = None
StateMetadataCache(h) == <<>>

\* state['_array_cache'] = {}
StateArrayCache(h) == EmptyMap

\* Item.__getstate__(), as pickle.dumps(item) calls it.  state is
\* self.__dict__ itself, so the Item's own caches are reset as well.  The
\* call record keeps what the caches held before
getstate(h) ==
    /\ ihandle[h]
    /\ pickled' = <<[h |-> h, mcache |-> StateMetadataCache(h),
                     acache |-> StateArrayCache(h)]>>
    /\ mcache' = [mcache EXCEPT ![h] = StateMetadataCache(h)]
    /\ acache' = [acache EXCEPT ![h] = StateArrayCache(h)]
    /\ ret' = Ret("getstate", h, "ok", <<mcache[h], DOMAIN acache[h]>>)
    /\ UNCHANGED <<dsvars, files, cwd, ihandle, hashvars, otherItems, held>>

\* item = pickle.loads(...): a new Item whose __dict__ is the pickled state
\* takes the place of the program's Item object
loads(h) ==
    /\ pickled # <<>>
    /\ pickled[1].h = h
    /\ ihandle' = [ihandle EXCEPT ![h] = TRUE]
    /\ mcache' = [mcache EXCEPT ![h] = pickled[1].mcache]
    /\ acache' = [acache EXCEPT ![h] = pickled[1].acache]
    /\ ret' = Ret("loads", h, "ok", <<>>)
    /\ UNCHANGED <<dsvars, files, cwd, restvars>>

\* One item with metadata and arrays: attribute access and pickling
AttrArrayNames == {"x", "metadata"}
AttrNames == {"x", "metadata", "name", "_directory", "y"}

InitAttr ==
    /\ Created(None, [n \in {TheItem} |-> {<<"foo", "bar">>}])
    /\ ihandle = [h \in Handles |-> h = "rw"]
    /\ files = [d \in Dirs |-> IF d = "item" THEN EmptyMap ELSE SourceFiles]
    /\ cwd \in Dirs
    /\ otherItems = {}
    /\ NoHash
    /\ NoObjects
    /\ ret = Ret("add_item", "rw", "ok", <<TheItem>>)

NextAttr ==
    \/ \E n \in AttrArrayNames, d \in Datas : add_array("rw", n, d, <<>>, "npy", None)
    \/ \E n \in AttrArrayNames : delete_array("rw", <<n, "npy">>)
    \/ \E n \in AttrNames : item_attr("rw", n)
    \/ getstate("rw")
    \/ loads("rw")

SpecAttr == InitAttr /\ [][NextAttr]_vars

\* ------------------------------------------------------------- equality, hash
\* Ways to write the path of the dataset directory, as path components:
\* relative, absolute, and through a symbolic link to it
DsSpellings == {<<"tmp">>, <<"/", "abs", "tmp">>, <<"link">>}

\* Item._directory of the Item that DataSet(p).get_item(n) makes
ItemDirectory(p, n) == Append(p, n)

ItemDirectories == {ItemDirectory(p, n) : p \in DsSpellings, n \in {"bar", "baz"}}

\* The directory a path leads to, all spellings leading to the same dataset
RealPath(path) == <<"/", "abs", "tmp", path[Len(path)]>>

\* Path.exists() of an item directory
ItemDirectoryExists(path) == dsExists /\ path[Len(path)] \in DOMAIN items

\* Path.samefile: [st, val]
samefile(a, b) ==
    IF ~ItemDirectoryExists(a) \/ ~ItemDirectoryExists(b)
    THEN [st |-> "FileNotFound", val |-> FALSE]
    ELSE [st |-> "ok", val |-> RealPath(a) = RealPath(b)]

\* Item.__eq__
item_eq(a, b) == samefile(a, b)

PartCode(s) ==
    CASE s = "/" -> 1 [] s = "abs" -> 2 [] s = "tmp" -> 3 [] s = "link" -> 4
      [] s = "bar" -> 5 [] s = "baz" -> 6 [] s = "_metadata.json" -> 7 [] OTHER -> 0

RECURSIVE HashFold(_, _)
HashFold(parts, acc) ==
    IF parts = <<>> THEN acc
    ELSE HashFold(Tail(parts), (acc * 31 + PartCode(Head(parts))) % 65521)

\* hash() of a Path: a number computed from the components as written
PathHash(path) == HashFold(path, 17)

\* Item.__hash__
item_hash(a) == PathHash(Append(a, "_metadata.json"))

\* "x in l" for a list l of Items: [st, val], comparing in list order
RECURSIVE InList(_, _)
InList(x, l) ==
    IF l = <<>> THEN [st |-> "ok", val |-> FALSE]
    ELSE LET e == item_eq(Head(l), x) IN
         IF e.st # "ok" THEN [st |-> e.st, val |-> FALSE]
         ELSE IF e.val THEN [st |-> "ok", val |-> TRUE]
         ELSE InList(x, Tail(l))

\* "x in set(l)": only elements with the hash of x are compared with it
InSet(x, l) ==
    InList(x, SelectSeq(l, LAMBDA y : item_hash(y) = item_hash(x)))

\* held.append(DataSet(p).get_item(n))
hold_item(p, n) ==
    /\ Len(held) < MaxHeld
    /\ IF ~has_item(n)
       THEN /\ ret' = Ret("hold_item", "ro", "NotFound", <<>>)
            /\ UNCHANGED held
       ELSE /\ held' = Append(held, ItemDirectory(p, n))
            /\ ret' = Ret("hold_item", "ro", "ok", <<n>>)
    /\ UNCHANGED <<dsvars, itvars, hashvars, otherItems, pickled>>

\* x = DataSet(p).get_item(n); (x in held, x in set(held))
contains_item(p, n) ==
    /\ IF ~has_item(n)
       THEN ret' = Ret("contains_item", "ro", "NotFound", <<>>)
       ELSE LET x == ItemDirectory(p, n)
                il == InList(x, held)
                is == InSet(x, held)
            IN
            ret' = Ret("contains_item", "ro",
                       IF il.st # "ok" THEN il.st ELSE is.st, <<il.val, is.val>>)
    /\ UNCHANGED <<dsvars, itvars, restvars>>

\* Item handles of one dataset, obtained through differently written paths
InitEq ==
    /\ Created(None, [n \in {"bar", "baz"} |-> {}])
    /\ ihandle = [h \in Handles |-> FALSE]
    /\ NoFiles
    /\ NoHash
    /\ NoObjects
    /\ ret = Ret("add_item", "rw", "ok", <<"baz">>)

NextEq ==
    \/ \E p \in DsSpellings, n \in {"bar", "baz", "doesnotexist"} : hold_item(p, n)
    \/ \E p \in DsSpellings, n \in {"bar", "baz", "doesnotexist"} : contains_item(p, n)

SpecEq == InitEq /\ [][NextEq]_vars

\* ------------------------------------------------------------- hash of a dataset
\* The bytes of the strings that occur in JSON files
StrCode(s) ==
    CASE s = "foo" -> 11 [] s = "raz" -> 12 [] s = "n" -> 13 [] s = "kind" -> 14
      [] s = "samplerate" -> 15 [] s = "bar" -> 21 [] s = "baz" -> 22
      [] s = "boo" -> 23 [] s = "#3" -> 24 [] s = "ones" -> 25 [] s = "#1" -> 26
      [] s = "#8000" -> 27 [] s = "#44100" -> 28 [] s = "_filename" -> 16
      [] s = "x" -> 31 [] s = "npy" -> 32 [] s = "wav" -> 33 [] s = "mat" -> 34
      [] s = "d0" -> 41 [] s = "d1" -> 42 [] OTHER -> 40

\* json.dump(m, sort_keys=True) as bytes: the pairs in key order
JsonBytes(m) ==
    LET keys == SortSeq(CHOOSE s \in Perms({p[1] : p \in m}) : TRUE,
                        LAMBDA a, b : StrCode(a) < StrCode(b))
        RECURSIVE Dump(_)
        Dump(ks) ==
            IF ks = <<>> THEN <<>>
            ELSE <<StrCode(Head(ks)), StrCode(Get(m, Head(ks)))>> \o Dump(Tail(ks))
    IN <<1>> \o Dump(keys) \o <<2>>

\* The bytes of a payload or sidecar file of the item's directory
FileBytes(c) ==
    IF c.kind = "json"
    THEN JsonBytes(c.meta) \o <<StrCode("_filename"), StrCode(c.fn[1]), StrCode(c.fn[2])>>
    ELSE <<StrCode(c.fmt), StrCode(c.data), StrCode(c.rate), StrCode(c.key)>>

\* item._directory.iterdir() of item n, each file as its bytes; the order
\* has no influence on the digest
ItemFiles(n) ==
    LET names == IF n = TheItem
                 THEN CHOOSE s \in Perms(DOMAIN files["item"]) : TRUE
                 ELSE <<>>
    IN <<JsonBytes(items[n])>> \o [i \in DOMAIN names |-> FileBytes(files["item"][names[i]])]

\* dataset.calculate_hash(): all_items() run to its end, every file of
\* every item read
calculate_hash_call(h) ==
    /\ hstate[h] \in {"open", "deleted"}
    /\ \E s \in ListingOrders :
          LET r == AllItemsRun(h, s) IN
          IF r.st # "ok"
          THEN /\ ret' = Ret("calculate_hash", h, r.st, <<>>)
               /\ UNCHANGED <<cache, gens, hlisting, hdigest>>
          ELSE IF \E i \in DOMAIN r.seq : r.seq[i] \notin DOMAIN items
          THEN \* iterdir() of an item directory that is gone
               /\ ret' = Ret("calculate_hash", h, "FileNotFound", <<>>)
               /\ UNCHANGED <<cache, gens, hlisting, hdigest>>
          ELSE /\ hlisting' = [i \in DOMAIN r.seq |-> ItemFiles(r.seq[i])]
               /\ hdigest' = calculate_hash(hlisting')
               /\ ret' = Ret("calculate_hash", h, "ok", r.seq)
               /\ IF r.scanned
                  THEN /\ cache' = CacheAfterScan(h, r.seq)
                       /\ gens' = Unalias(h)
                  ELSE UNCHANGED <<cache, gens>>
    /\ UNCHANGED <<dsExists, dsmeta, items, hstate, uuidCount, deletedItems, itvars,
                   hmoved, hdigest0, otherItems, pickled, held>>

\* The hash of a writable dataset whose items are added while it is traversed
HashMetaArgs == {<<>>, <<{<<"foo", "bar">>}>>}

NextHashDs ==
    \/ \E n \in {"bar", "baz"}, m \in HashMetaArgs : add_item("rw", n, m)
    \/ all_items("rw")
    \/ \E i \in 1..MaxGens : next_item(i)
    \/ list_all_items("rw")
    \/ calculate_hash_call("rw")

SpecHashDs == InitGen /\ [][NextHashDs]_vars
\* ===================================================================
\* Properties
\* ===================================================================

\* The files of the item's directory that are sidecars, and the others
Sidecars == {f \in DOMAIN files["item"] : f[2] = "json"}
Payloads == {f \in DOMAIN files["item"] : f[2] # "json"}

\* C1: add_array and add_array_from_file on a name for which has_array is
\* already true fail with the already-exists error, whatever the format or
\* the source extension, and leave the payload and sidecar of the
\* existing array as they were. (A missing source file is reported before
\* the name is looked at, so such calls are not the claim's case.)
C1_ExistingNameRefused ==
    [][(/\ ret'.op \in {"add_array", "add_array_from_file"}
        /\ ret'.h = "rw"
        /\ ret'.st # "NotFound"
        /\ has_array(ret'.val[1]))
       => (/\ ret'.st = "AlreadyExists"
           /\ files'["item"] = files["item"])]_vars

\* C2: in every reachable state each sidecar of the item's directory names
\* a payload that exists there, and each payload there is named by exactly
\* one sidecar: no orphan of either kind.
C2_NoOrphans ==
    /\ \A s \in Sidecars : files["item"][s].fn \in Payloads
    /\ \A p \in Payloads :
          Cardinality({s \in Sidecars : files["item"][s].fn = p}) = 1

\* C3: after delete_item(x) succeeded, no traversal of all_items begun
\* afterwards yields x, also when an earlier traversal was partly consumed
\* before the deletion and resumed after it.
C3_DeletedItemNeverYielded ==
    /\ \A i \in DOMAIN gens : ~gens[i].stale
    /\ (ret.op = "list_all_items" /\ ret.st = "ok")
          => Range(ret.val) \cap deletedItems = {}

\* C4: delete_array, given an array of the item, removes its payload and
\* its sidecar from the item's own directory whatever the working
\* directory is; afterwards has_array(name) is false.
C4_DeleteArrayRemovesBoth ==
    [][\A fn \in ArrayFileNames :
          (/\ delete_array("rw", fn)
           /\ <<fn[1], "json">> \in Sidecars
           /\ files["item"][<<fn[1], "json">>].fn = fn
           /\ fn \in Payloads)
          => (/\ ret'.st = "ok"
              /\ fn \notin DOMAIN files'["item"]
              /\ <<fn[1], "json">> \notin DOMAIN files'["item"]
              /\ ~has_array(fn[1])')]_vars

\* C5: on read-only DataSet and Item objects every mutating call
\* (add_item, delete_item, delete_dataset, add_array, add_array_from_file,
\* delete_array) fails with the read-only error and leaves the file
\* system, the item cache and the array cache unchanged.
MutatingCalls ==
    {"add_item", "delete_item", "delete_dataset",
     "add_array", "add_array_from_file", "delete_array"}

C5_ReadOnlyRefusesMutation ==
    [][(ret'.h = "ro" /\ ret'.op \in MutatingCalls)
       => (/\ ret'.st = "ReadOnly"
           /\ UNCHANGED <<dsExists, dsmeta, items, files, cache, acache>>)]_vars

\* a read-only Item with a filled array cache, of a read-only DataSet with
\* a filled item cache, has just refused delete_array
C5_Witness ==
    /\ ret.h = "ro"
    /\ ret.op = "delete_array"
    /\ ret.st = "ReadOnly"
    /\ cache["ro"] # <<>>
    /\ "x" \in DOMAIN acache["ro"]
    /\ has_array("x")

\* C6: DataSet(directory) fails with the not-found error unless the path
\* exists, is a directory and holds _metadata.json.
IsDataset(p) == PathExists(p) /\ PathIsDir(p) /\ PathHasMetadata(p)

C6_OpenNeedsDataset ==
    ret.op = "DataSet" =>
        (ret.st = "ok" <=> IsDataset(ret.val[1]))

\* C7: find_items yields exactly the items, in traversal order, whose
\* metadata has every queried key with a value equal to the queried scalar
\* (string or number) or contained in the queried list; an item lacking a
\* queried key is left out and the empty query yields every item.
Matches(md, q) ==
    \A i \in DOMAIN q : HasKey(md, q[i][1]) /\ Get(md, q[i][1]) \in q[i][2].vals

C7_FindItemsFilters ==
    ret.op = "find_items" =>
        /\ ret.st = "ok"
        /\ ret.val = SelectSeq(ret.all, LAMBDA n : Matches(items[n], ret.q))

\* C8: create_dataset on a path that exists, and add_item whose resolved
\* name is that of an existing item, fail with the already-exists error
\* and leave the stored state and the item cache as they were.
ResolvesToItem(name, mdarg) ==
    LET nm == IF name = None THEN itemname(mdarg) ELSE [st |-> "ok", name |-> name]
    IN nm.st = "ok" /\ nm.name \in DOMAIN items

C8_CollisionRefused ==
    [][/\ (dsExists /\ ret'.op = "create_dataset")
             => (ret'.st = "AlreadyExists"
                 /\ UNCHANGED <<dsExists, dsmeta, items, files, cache>>)
       /\ \A n \in ExplicitNames \cup {None}, m \in SpecMetaArgs :
             (/\ ret'.op = "add_item"
              /\ hstate["rw"] = "open"
              /\ ResolvesToItem(n, m)
              /\ add_item("rw", n, m))
             => (ret'.st = "AlreadyExists"
                 /\ UNCHANGED <<dsExists, dsmeta, items, files, cache>>)]_vars

\* add_item has just been refused for a name in use, the item cache being
\* filled
C8_Witness ==
    /\ ret.op = "add_item"
    /\ ret.h = "rw"
    /\ ret.st = "AlreadyExists"
    /\ TheItem \in DOMAIN items
    /\ cache["rw"] # <<>>

\* C9: after add_item(x) succeeded, every later traversal of all_items run
\* to its end yields x (while x exists), also when another traversal was in
\* progress when x was added.
C9_AddedItemListed ==
    /\ \A i \in DOMAIN gens :
          (gens[i].h = "rw" /\ gens[i].pc = "done") => gens[i].expect = {}
    /\ (ret.op = "list_all_items" /\ ret.h = "rw" /\ ret.st = "ok")
          => DOMAIN items \subseteq Range(ret.val)

\* C10: calculate_hash does not depend on the order in which the
\* directories list their entries.
C10_HashOrderInvariant == hdigest = hdigest0

\* the listing was reordered, and holds two different items
C10_Witness ==
    /\ hmoved
    /\ Len(hlisting) >= 2
    /\ hlisting[1] # hlisting[2]

\* C11: has_item(name) is true exactly when an item directory of that name
\* exists in the dataset, so it is false for _metadata.json and for the
\* other entries of the dataset directory that are no items; get_item(name)
\* succeeds exactly for those names.
C11_HasItemMeansItem ==
    /\ (ret.op = "has_item" /\ ret.h = "rw")
          => (ret.st = "True" <=> ret.val[1] \in DOMAIN items)
    /\ (ret.op = "get_item" /\ ret.h = "rw" /\ ret.st = "ok")
          => ret.val[1] \in DOMAIN items

\* C12: add_item names the new directory by the explicit name if one is
\* given, also in a dataset with a template; else, the itemformat being a
\* template, by the template filled from the metadata, the same name for
\* the same metadata, a placeholder key absent from the metadata being an
\* error that creates no directory; else, the itemformat being null, by a
\* fresh identifier that no existing item has.
C12_NameResolution ==
    [][\A n \in ExplicitNames \cup {None}, m \in SpecMetaArgs :
          (/\ ret'.op = "add_item"
           /\ ret'.h = "rw"
           /\ hstate["rw"] = "open"
           /\ add_item("rw", n, m))
          => LET created == DOMAIN items' \ DOMAIN items
                 named(x) == /\ ret'.st \in {"ok", "AlreadyExists"}
                             /\ ret'.st = "ok" => (created = {x} /\ ret'.val = <<x>>)
                 templated == n = None /\ itemformat = "{foo}" /\ m # <<>>
             IN
             /\ n # None => named(n)
             /\ (templated /\ HasKey(m[1], "foo")) => named(Get(m[1], "foo"))
             /\ (templated /\ ~HasKey(m[1], "foo"))
                   => (ret'.st = "KeyError" /\ created = {} /\ UNCHANGED <<items, files>>)
             /\ (n = None /\ itemformat = None)
                   => (/\ ret'.st = "ok"
                       /\ Cardinality(created) = 1
                       /\ ret'.val[1] \in created)]_vars

\* in a dataset with the template "{foo}" an item was just added under the
\* name its metadata gives
C12_Witness ==
    /\ dsExists
    /\ itemformat = "{foo}"
    /\ ret.op = "add_item"
    /\ ret.st = "ok"
    /\ ret.val = <<"bar">>
    /\ "bar" \in DOMAIN items
    /\ items["bar"] = {<<"foo", "bar">>}

\* C13: metadata round-trips through the sidecar with the reserved keys
\* hidden. For arrays: the array that named access returns, its sidecar
\* naming a payload that is not audio, has the metadata the sidecar stores
\* (those add_array was given), without _filename, and the sidecar's
\* _filename as its private field.
C13_MetadataRoundTrip ==
    (ret.op = "getattr" /\ ret.h = "rw" /\ ret.st = "ok")
        => LET n == ret.val[1]
               a == acache["rw"][n]
               sc == files["item"][<<n, "json">>]
           IN sc.fn[2] \notin AudioFormats
                 => (/\ a.meta = sc.meta
                     /\ ~HasKey(a.meta, "_filename")
                     /\ a.fn = sc.fn)

\* C14: all_arrays() yields one (name, Array) pair for every sidecar of
\* the item directory and nothing else: the names it yields are those for
\* which has_array is true.
C14_AllArraysListsSidecars ==
    ret.op = "all_arrays"
        => (/\ ret.st = "ok"
            /\ Range(ret.val) = {n \in ArrayNames : has_array(n)}
            /\ Len(ret.val) = Cardinality(Range(ret.val)))

\* C15: add_array, the payload name being free, rejects an audio format
\* given without samplerate with the missing-parameter error and a format
\* outside npy, wav, flac, ogg, mat with the unsupported-format error, and
\* writes neither payload nor sidecar then; given a samplerate with an audio
\* format, the sidecar it writes stores that samplerate, in place of a
\* samplerate key of the caller's metadata.
C15_InvalidAddArrayRejected ==
    [][\A n \in ArrayNames, d \in Datas, m \in ArrayMetaArgs,
          f \in ItemFormats, sr \in ItemRates :
          (/\ ret'.op = "add_array"
           /\ ret'.h = "rw"
           /\ <<n, f>> \notin DOMAIN files["item"]
           /\ add_array("rw", n, d, m, f, sr))
          => /\ (f \in AudioFormats /\ sr = None)
                   => (ret'.st = "MissingParameter" /\ UNCHANGED files)
             /\ f \notin {"npy", "wav", "flac", "ogg", "mat"}
                   => (ret'.st = "NotImplemented" /\ UNCHANGED files)
             /\ (f \in AudioFormats /\ sr # None)
                   => /\ <<n, "json">> \in DOMAIN files'["item"]
                      /\ {p \in files'["item"][<<n, "json">>].meta : p[1] = "samplerate"}
                            = {<<"samplerate", sr>>}]_vars

\* add_array has just refused an audio format without samplerate, the item
\* directory holding no file
C15_Witness ==
    /\ ret.op = "add_array"
    /\ ret.h = "rw"
    /\ ret.st = "MissingParameter"
    /\ DOMAIN files["item"] = {}

\* C16: delete_dataset(d) on a writable object leaves no dataset directory,
\* and d is invalidated: a later d.all_items() yields no item of the deleted
\* dataset, also when d's item cache was filled before.
C16_DeletedDatasetYieldsNothing ==
    /\ (ret.op = "delete_dataset" /\ ret.st = "ok") => ~dsExists
    /\ (hstate["rw"] = "deleted" /\ ret.op = "list_all_items" /\ ret.h = "rw")
          => ret.val = <<>>

\* C17: add_array_from_file fails with ReadOnly on a read-only item, else
\* with NotFound if the source file is missing, else with AlreadyExists if
\* the destination payload exists, and writes nothing in these cases; else
\* it copies the source into the item directory as <name><source extension>
\* and writes a sidecar whose _filename is that name and which, for an audio
\* source, stores the sample rate of the source in place of a samplerate of
\* the caller's metadata.
C17_AddFromFileOrder ==
    [][\A h \in Handles, n \in ArrayNames, src \in SourcePaths, m \in ArrayMetaArgs :
          (ret'.op = "add_array_from_file" /\ add_array_from_file(h, n, src, m))
          => LET dst == <<n, src[2]>>
                 sc == <<n, "json">>
                 refused(st) == ret'.st = st /\ UNCHANGED files
             IN
             IF h = "ro" THEN refused("ReadOnly")
             ELSE IF src \notin DOMAIN files[cwd] THEN refused("NotFound")
             ELSE IF dst \in DOMAIN files["item"] THEN refused("AlreadyExists")
             ELSE /\ DOMAIN files'["item"] = DOMAIN files["item"] \cup {dst, sc}
                  /\ files'["item"][dst] = files[cwd][src]
                  /\ files'["item"][sc].fn = dst
                  /\ src[2] \in AudioFormats
                        => {p \in files'["item"][sc].meta : p[1] = "samplerate"}
                              = {<<"samplerate", files[cwd][src].rate>>}
                  /\ \A f \in DOMAIN files["item"] \ {dst, sc} :
                        files'["item"][f] = files["item"][f]
                  /\ files'["elsewhere"] = files["elsewhere"]]_vars

\* an audio file has just been added: the sidecar names the copy and holds
\* the sample rate of the source
C17_Witness ==
    /\ ret.op = "add_array_from_file"
    /\ ret.h = "rw"
    /\ ret.st = "ok"
    /\ <<"x", "wav">> \in DOMAIN files["item"]
    /\ <<"x", "json">> \in DOMAIN files["item"]
    /\ files["item"][<<"x", "json">>].fn = <<"x", "wav">>
    /\ files["item"][<<"x", "json">>].meta = {<<"samplerate", "#44100">>}

\* C18: the array cache of an item never returns a stale array: after a
\* successful delete_array of array n the cache has no entry for n, and
\* named access returns the data of the payload the sidecar names now.
C18_ArrayCacheNeverStale ==
    /\ (ret.op = "delete_array" /\ ret.h = "rw" /\ ret.st = "ok")
          => ret.val[1] \notin DOMAIN acache["rw"]
    /\ (ret.op = "getattr" /\ ret.h = "rw" /\ ret.st = "ok")
          => LET sc == files["item"][<<ret.val[1], "json">>]
             IN /\ sc.fn \in DOMAIN files["item"]
                /\ acache["rw"][ret.val[1]].data = files["item"][sc.fn].data

\* C19: the item cache is filled only by a traversal of all_items() that
\* ran to its end, is replayed unchanged by later traversals while no item
\* is deleted, and never holds the handle of an item that delete_item has
\* removed.
C19_CacheHoldsNoDeletedItem ==
    /\ \A i \in DOMAIN cache["rw"] : cache["rw"][i] \notin deletedItems
    /\ (ret.op = "list_all_items" /\ ret.h = "rw" /\ ret.st = "ok")
          => cache["rw"] = ret.val

\* C20: delete_item on a dataset removes only item directories of that
\* dataset; given an Item handle of another dataset it fails and removes
\* nothing, so no call on the dataset at DsPath changes the second dataset.
C20_OtherDatasetUntouched ==
    otherItems = OtherNames


\* C21: an itemformat that is neither null nor a template with a
\* substitution marker is refused with a type error by create_dataset, so no
\* dataset exists whose stored _itemformat is such a value; and add_item
\* never makes an item directory named from such a template.
C21_BadFormatRefusedAtCreation ==
    /\ dsExists => itemformat \in {None, "{foo}"}
    /\ (ret.op = "add_item" /\ ret.st = "ok" /\ dsExists
          /\ itemformat \notin {None, "{foo}"})
          => ret.val[1] \in ExplicitNames

\* C22: named access item.<n> returns the array of sidecar <n>.json for
\* every name n for which has_array(n) is true, so every array add_array
\* accepted is reached under its name; it fails with not-found for every
\* other name that is no attribute of the item; and the reserved names and
\* the item's own attributes never resolve to an array.
C22_NamedAccess ==
    (ret.op \in {"getattr", "item_attr"} /\ ret.h = "rw")
       => LET n == ret.val[1] IN
          /\ has_array(n) => ret.st = "ok"
          /\ n \in OwnAttributes \cup ReservedNames => ret.st # "ok"
          /\ (~has_array(n) /\ n \notin OwnAttributes \cup ReservedNames)
                => ret.st = "NotFound"

\* C23: the state an Item is pickled with never carries cache contents:
\* whatever the Item had cached, _metadata_cache is None and _array_cache
\* is empty in the state __getstate__ returns; an Item rebuilt from it
\* starts with empty caches, and its first access to the metadata or to an
\* array returns what the files of the item hold at that time.
C23_PickledStateHasNoCaches ==
    [][/\ ret'.op = "getstate"
          => (/\ pickled' # <<>>
              /\ pickled'[1].mcache = <<>>
              /\ pickled'[1].acache = EmptyMap)
       /\ ret'.op = "loads"
          => (/\ mcache'[ret'.h] = <<>>
              /\ acache'[ret'.h] = EmptyMap)
       /\ (ret.op = "loads" /\ ret'.op = "item_attr" /\ ret'.val[1] = "metadata"
             /\ ret'.st = "own")
          => ret'.val[2] = items[TheItem]
       /\ (ret.op = "loads" /\ ret'.op = "getattr" /\ ret'.st = "ok")
          => acache'[ret'.h][ret'.val[1]] = Decode(files["item"], ret'.val[1]).arr]_vars

\* an Item that had its metadata and an array cached has just been pickled
C23_Witness ==
    /\ ret.op = "getstate"
    /\ ret.val[1] # <<>>
    /\ ret.val[2] # {}
    /\ pickled # <<>>
    /\ pickled[1].mcache = <<>>
    /\ pickled[1].acache = EmptyMap

\* C24: two Item handles compare equal iff they lead to the same
\* directory, however their paths are written; any two handles that compare
\* equal have the same hash; so an item is found in a set of items iff it
\* is found in the list of the same items.
C24_EqualityAndHashAgree ==
    /\ \A i, j \in DOMAIN held :
          /\ item_eq(held[i], held[j]).val <=> RealPath(held[i]) = RealPath(held[j])
          /\ item_eq(held[i], held[j]).val => item_hash(held[i]) = item_hash(held[j])
    /\ (ret.op = "contains_item" /\ ret.st = "ok") => ret.val[1] = ret.val[2]

\* What a DataSet object made now for the dataset directory would hash: the
\* files of the item directories as they are on disk
DiskListing ==
    LET s == CHOOSE s \in Perms(DOMAIN items) : TRUE
    IN [i \in DOMAIN s |-> ItemFiles(s[i])]

\* C25: calculate_hash is a function of the contents of the files in the
\* item directories and of nothing else: on an existing dataset it returns
\* the digest of the files that are on disk at the time of the call, the
\* same for every object that stands for the dataset.
C25_HashOfContentsOnly ==
    (ret.op = "calculate_hash" /\ dsExists)
       => (ret.st = "ok" /\ hdigest = calculate_hash(DiskListing))
====
